---- MODULE Spec2Model ----
(***************************************************************************)
(* A model of st_aggrid.AgGrid (src/st_aggrid/__init__.py): one render     *)
(* call classifies the columns of a dataframe, encodes every cell to a     *)
(* JSON-safe scalar, validates its configuration, calls the hosted grid    *)
(* component once and decodes the component's answer back into a frame.    *)
(*                                                                         *)
(* Text is modelled as a sequence of one-character strings, so formatting  *)
(* (str, isoformat, upper) and parsing (to_numeric, to_datetime,           *)
(* Timedelta) are computed character by character.                         *)
(***************************************************************************)
EXTENDS Integers, Sequences, FiniteSets, TLC

(* ------------------------------ bounds -------------------------------- *)

\* Rows of every input table.
NRows == 2

(* --------------------------- Python values ---------------------------- *)
\* A cell value is a record [t, n, s]: t the Python type, n the numeric
\* content, s the text content.
\*   int        n = the integer
\*   float      n = twice the value (halves), finite
\*   nan, inf   float('nan'); float('inf') with n = 1, float('-inf') with n = -1
\*   bool       n = 1 for True, 0 for False
\*   str        s = the characters
\*   none       None
\*   datetime   pandas.Timestamp, n = days since 2020-01-01
\*   nat        pandas.NaT
\*   timedelta  pandas.Timedelta, n = whole days
\*   GridUpdateMode, DataReturnMode   an enum member, s = its name

PyInt(k) == [t |-> "int", n |-> k, s |-> <<>>]
PyFloat(h) == [t |-> "float", n |-> h, s |-> <<>>]
PyNaN == [t |-> "nan", n |-> 0, s |-> <<>>]
PyInf(sign) == [t |-> "inf", n |-> sign, s |-> <<>>]
PyBool(b) == [t |-> "bool", n |-> IF b THEN 1 ELSE 0, s |-> <<>>]
PyStr(chars) == [t |-> "str", n |-> 0, s |-> chars]
PyNone == [t |-> "none", n |-> 0, s |-> <<>>]
MkTimestamp(d) == [t |-> "datetime", n |-> d, s |-> <<>>]
NaT == [t |-> "nat", n |-> 0, s |-> <<>>]
MkTimedelta(d) == [t |-> "timedelta", n |-> d, s |-> <<>>]
EnumMember(cls, name) == [t |-> cls, n |-> 0, s |-> name]

(* ------------------------------- text --------------------------------- *)

Digits == <<"0", "1", "2", "3", "4", "5", "6", "7", "8", "9">>

IsDigit(c) == \E i \in 1..10 : Digits[i] = c

DigitValue(c) == (CHOOSE i \in 1..10 : Digits[i] = c) - 1

RECURSIVE NatChars(_)
\* The decimal digits of a natural number.
NatChars(k) ==
    IF k < 10 THEN <<Digits[k + 1]>>
    ELSE NatChars(k \div 10) \o <<Digits[(k % 10) + 1]>>

\* int.__str__
IntChars(k) == IF k < 0 THEN <<"-">> \o NatChars(0 - k) ELSE NatChars(k)

\* float.__str__ of the finite float h/2.
FloatChars(h) ==
    LET a == IF h < 0 THEN 0 - h ELSE h
        body == NatChars(a \div 2) \o <<".", IF a % 2 = 0 THEN "0" ELSE "5">>
    IN  IF h < 0 THEN <<"-">> \o body ELSE body

RECURSIVE NatValue(_)
\* The value of a non-empty sequence of digits.
NatValue(chars) ==
    IF Len(chars) = 1 THEN DigitValue(chars[1])
    ELSE 10 * NatValue(SubSeq(chars, 1, Len(chars) - 1)) + DigitValue(chars[Len(chars)])

AllDigits(chars) == Len(chars) > 0 /\ \A i \in 1..Len(chars) : IsDigit(chars[i])

TwoDigits(k) == <<Digits[(k \div 10) + 1], Digits[(k % 10) + 1]>>

Lowers == <<"a", "b", "c", "d", "e", "f", "g", "h", "i", "j", "k", "l", "m",
            "n", "o", "p", "q", "r", "s", "t", "u", "v", "w", "x", "y", "z">>

Uppers == <<"A", "B", "C", "D", "E", "F", "G", "H", "I", "J", "K", "L", "M",
            "N", "O", "P", "Q", "R", "S", "T", "U", "V", "W", "X", "Y", "Z">>

UpperChar(c) ==
    IF \E i \in 1..26 : Lowers[i] = c
    THEN Uppers[CHOOSE i \in 1..26 : Lowers[i] = c]
    ELSE c

\* str.upper
Upper(chars) == [i \in 1..Len(chars) |-> UpperChar(chars[i])]

LowerChar(c) ==
    IF \E i \in 1..26 : Uppers[i] = c
    THEN Lowers[CHOOSE i \in 1..26 : Uppers[i] = c]
    ELSE c

Lower(chars) == [i \in 1..Len(chars) |-> LowerChar(chars[i])]

NanChars == <<"n", "a", "n">>
InfChars == <<"i", "n", "f">>
NoneChars == <<"N", "o", "n", "e">>
TrueChars == <<"T", "r", "u", "e">>
FalseChars == <<"F", "a", "l", "s", "e">>
NaTChars == <<"N", "a", "T">>
BogusChars == <<"b", "o", "g", "u", "s">>

\* Timestamp.isoformat: 2020-01-DDT00:00:00 for the days of January 2020.
TimestampIso(d) ==
    <<"2", "0", "2", "0", "-", "0", "1", "-">> \o TwoDigits(d + 1)
        \o <<"T", "0", "0", ":", "0", "0", ":", "0", "0">>

\* Timedelta.isoformat: P<days>DT0H0M0S.
TimedeltaIso(d) ==
    <<"P">> \o NatChars(d) \o <<"D", "T", "0", "H", "0", "M", "0", "S">>

\* value.__str__()
PyStrOf(v) ==
    CASE v.t = "int" -> IntChars(v.n)
      [] v.t = "float" -> FloatChars(v.n)
      [] v.t = "nan" -> NanChars
      [] v.t = "inf" -> IF v.n < 0 THEN <<"-">> \o InfChars ELSE InfChars
      [] v.t = "bool" -> IF v.n = 1 THEN TrueChars ELSE FalseChars
      [] v.t = "str" -> v.s
      [] v.t = "none" -> NoneChars
      [] v.t = "nat" -> NaTChars
      [] v.t = "datetime" ->
            <<"2", "0", "2", "0", "-", "0", "1", "-">> \o TwoDigits(v.n + 1)
                \o <<" ", "0", "0", ":", "0", "0", ":", "0", "0">>
      [] v.t = "timedelta" ->
            NatChars(v.n) \o <<" ", "d", "a", "y", "s", " ", "0", "0", ":", "0", "0", ":", "0", "0">>
      [] v.t = "GridUpdateMode" ->
            <<"G", "r", "i", "d", "U", "p", "d", "a", "t", "e", "M", "o", "d", "e", ".">> \o v.s
      [] v.t = "DataReturnMode" ->
            <<"D", "a", "t", "a", "R", "e", "t", "u", "r", "n", "M", "o", "d", "e", ".">> \o v.s

(* ----------------------------- dataframes ----------------------------- *)
\* A DataFrame is [columns, dtypes, data]: the ordered column names, each
\* column's numpy dtype kind, and each column's cells (a Series) in row order.

ColumnNames == {"id", "x"}

MkFrame(kind, cells) ==
    [columns |-> <<"id", "x">>,
     dtypes |-> [c \in ColumnNames |-> IF c = "id" THEN "i" ELSE kind],
     data |-> [c \in ColumnNames |-> IF c = "id" THEN [r \in 1..NRows |-> PyInt(r)] ELSE cells]]

\* The dtype kinds a dataframe column of the modelled cells can have:
\* b bool, i signed int, u unsigned int, f float, O object, M datetime64,
\* m timedelta64.
DtypeKinds == {"b", "i", "u", "f", "O", "M", "m"}

CellsOfKind(kind) ==
    CASE kind = "b" -> {PyBool(TRUE), PyBool(FALSE)}
      [] kind = "i" -> {PyInt(3), PyInt(0 - 12)}
      [] kind = "u" -> {PyInt(0), PyInt(255)}
      [] kind = "f" -> {PyFloat(3), PyNaN, PyInf(1), PyInf(0 - 1)}
      [] kind = "O" -> {PyStr(<<"a">>), PyStr(<<"1", "2">>), PyNone}
      [] kind = "M" -> {MkTimestamp(0), MkTimestamp(11), NaT}
      [] kind = "m" -> {MkTimedelta(1), MkTimedelta(10), NaT}

\* The input tables: an integer id column and one column of any kind.
Frames ==
    UNION {{MkFrame(kind, cells) : cells \in [1..NRows -> CellsOfKind(kind)]} : kind \in DtypeKinds}

\* frame_dtypes = dict(zip(dataframe.columns, (t.kind for t in dataframe.dtypes)))
FrameDtypes(dataframe) == [c \in ColumnNames |-> dataframe.dtypes[c]]

(* --------------------------- outbound encoder -------------------------- *)

\* getattr(value, "isoformat", None) is callable: Timestamp, NaT, Timedelta.
HasIsoformat(value) == value.t \in {"datetime", "nat", "timedelta"}

Isoformat(value) ==
    CASE value.t = "datetime" -> TimestampIso(value.n)
      [] value.t = "timedelta" -> TimedeltaIso(value.n)
      [] value.t = "nat" -> NaTChars

\* isinstance(value, numbers.Number): int, float and bool (a subclass of int).
IsNumber(value) == value.t \in {"int", "float", "nan", "inf", "bool"}

np_isnan(value) == value.t = "nan"

np_isinf(value) == value.t = "inf"

\* A plausible slip: only not-a-number is tested, infinities pass as numbers.
cast_to_serializable_NoInf(value) ==
    IF HasIsoformat(value) THEN PyStr(Isoformat(value))
    ELSE IF IsNumber(value)
         THEN IF np_isnan(value) THEN PyStr(PyStrOf(value)) ELSE value
         ELSE PyStr(PyStrOf(value))

cast_to_serializable(value) ==
    IF HasIsoformat(value) THEN PyStr(Isoformat(value))
    ELSE IF IsNumber(value)
         THEN IF np_isnan(value) \/ np_isinf(value) THEN PyStr(PyStrOf(value)) ELSE value
         ELSE PyStr(PyStrOf(value))

\* json_frame = dataframe.applymap(cast_to_serializable): a new frame, the
\* argument is left as it was.
Applymap(dataframe) ==
    [data |-> [c \in ColumnNames |->
                 [r \in 1..NRows |-> cast_to_serializable(dataframe.data[c][r])]]]

\* json_frame.to_dict(orient="records"): one record per row, in row order.
ToDictRecords(json_frame) ==
    [r \in 1..NRows |-> [c \in ColumnNames |-> json_frame.data[c][r]]]

(* -------------------------------- JSON --------------------------------- *)
\* A JSON scalar is [j, n, s]: j one of int, float (n in halves), string,
\* true, false, null, the non-standard tokens NaN, Infinity, -Infinity that
\* a serializer without ignore_nan writes, or TypeError for a value the
\* serializer refuses.

JInt(k) == [j |-> "int", n |-> k, s |-> <<>>]
JFloat(h) == [j |-> "float", n |-> h, s |-> <<>>]
JString(chars) == [j |-> "string", n |-> 0, s |-> chars]
JNull == [j |-> "null", n |-> 0, s |-> <<>>]
JToken(name) == [j |-> name, n |-> 0, s |-> <<>>]

\* simplejson's encoding of one value.
DumpsValue(value, ignore_nan) ==
    CASE value.t = "int" -> JInt(value.n)
      [] value.t = "float" -> JFloat(value.n)
      [] value.t = "bool" -> IF value.n = 1 THEN JToken("true") ELSE JToken("false")
      [] value.t = "str" -> JString(value.s)
      [] value.t = "none" -> JNull
      [] value.t = "nan" -> IF ignore_nan THEN JNull ELSE JToken("NaN")
      [] value.t = "inf" ->
            IF ignore_nan THEN JNull
            ELSE IF value.n < 0 THEN JToken("-Infinity") ELSE JToken("Infinity")
      [] OTHER -> JToken("TypeError")

\* row_data = simplejson.dumps(row_data, ignore_nan=True)
SimplejsonDumps(records) ==
    [r \in 1..Len(records) |-> [c \in ColumnNames |-> DumpsValue(records[r][c], TRUE)]]

\* The value a JSON scalar is read back as.
LoadsValue(jv) ==
    CASE jv.j = "int" -> PyInt(jv.n)
      [] jv.j = "float" -> PyFloat(jv.n)
      [] jv.j = "string" -> PyStr(jv.s)
      [] jv.j = "true" -> PyBool(TRUE)
      [] jv.j = "false" -> PyBool(FALSE)
      [] jv.j = "null" -> PyNone
      [] jv.j = "NaN" -> PyNaN
      [] jv.j = "Infinity" -> PyInf(1)
      [] jv.j = "-Infinity" -> PyInf(0 - 1)

(* --------------------------- inbound decoder --------------------------- *)
\* Every parser returns [ok, v]: whether the text parses, and the value.

Parsed(v) == [ok |-> TRUE, v |-> v]
ParseFailure == [ok |-> FALSE, v |-> PyNone]

HasPrefix(chars, prefix) ==
    Len(chars) >= Len(prefix) /\ SubSeq(chars, 1, Len(prefix)) = prefix

\* The number a text cell parses to under pandas.to_numeric: nan and inf in
\* any case, a signed run of digits, or digits with one decimal digit 0 or 5
\* (the halves this model's floats are made of).
ParseNumeric(chars) ==
    LET neg == Len(chars) > 0 /\ chars[1] = "-"
        body == IF neg THEN SubSeq(chars, 2, Len(chars)) ELSE chars
        sign == IF neg THEN 0 - 1 ELSE 1
        n == Len(body)
    IN  IF Lower(body) = NanChars THEN Parsed(PyNaN)
        ELSE IF Lower(body) = InfChars THEN Parsed(PyInf(sign))
        ELSE IF AllDigits(body) THEN Parsed(PyInt(sign * NatValue(body)))
        ELSE IF n >= 3 /\ body[n - 1] = "." /\ body[n] \in {"0", "5"}
                /\ AllDigits(SubSeq(body, 1, n - 2))
             THEN Parsed(PyFloat(sign * (2 * NatValue(SubSeq(body, 1, n - 2))
                                          + IF body[n] = "5" THEN 1 ELSE 0)))
        ELSE ParseFailure

\* pandas.to_numeric on one cell.
ToNumericCell(value) ==
    CASE value.t \in {"int", "float", "nan", "inf", "bool"} -> Parsed(value)
      [] value.t = "none" -> Parsed(PyNaN)
      [] value.t = "str" -> ParseNumeric(value.s)
      [] OTHER -> ParseFailure

\* The timestamp a text cell parses to under pandas.to_datetime: NaT, or an
\* ISO date of January 2020 with or without the midnight time part.
ParseDatetime(chars) ==
    LET datePrefix == <<"2", "0", "2", "0", "-", "0", "1", "-">>
        midnight == <<"T", "0", "0", ":", "0", "0", ":", "0", "0">>
    IN  IF chars = NaTChars THEN Parsed(NaT)
        ELSE IF /\ Len(chars) \in {10, 19}
                /\ HasPrefix(chars, datePrefix)
                /\ AllDigits(SubSeq(chars, 9, 10))
                /\ NatValue(SubSeq(chars, 9, 10)) \in 1..31
                /\ (Len(chars) = 19 => SubSeq(chars, 11, 19) = midnight)
             THEN Parsed(MkTimestamp(NatValue(SubSeq(chars, 9, 10)) - 1))
        ELSE ParseFailure

\* pandas.to_datetime on one cell.
ToDatetimeCell(value) ==
    CASE value.t \in {"datetime", "nat"} -> Parsed(value)
      [] value.t \in {"none", "nan"} -> Parsed(NaT)
      [] value.t = "str" -> ParseDatetime(value.s)
      \* a number counts nanoseconds from 1970-01-01, 18262 days before 2020-01-01
      [] value.t \in {"int", "float"} -> Parsed(MkTimestamp(0 - 18262))
      [] OTHER -> ParseFailure

\* The duration a text parses to under pandas.Timedelta: NaT, or the ISO 8601
\* form P<days>DT0H0M0S.
ParseTimedelta(chars) ==
    LET tail == <<"D", "T", "0", "H", "0", "M", "0", "S">>
        n == Len(chars)
    IN  IF chars = NaTChars THEN Parsed(NaT)
        ELSE IF /\ n >= 10
                /\ chars[1] = "P"
                /\ SubSeq(chars, n - 7, n) = tail
                /\ AllDigits(SubSeq(chars, 2, n - 8))
             THEN Parsed(MkTimedelta(NatValue(SubSeq(chars, 2, n - 8))))
        ELSE ParseFailure

\* What a function handed to DataFrame.apply or called on a cell receives:
\* a whole column, [series |-> TRUE, cells], or one scalar,
\* [series |-> FALSE, cell].
AsSeries(cells) == [series |-> TRUE, cells |-> cells, cell |-> PyNone]
AsScalar(cell) == [series |-> FALSE, cells |-> <<>>, cell |-> cell]

\* pandas.Timedelta(value): a Timedelta, a string, a number or a null is
\* converted; any other argument, a Series among them, raises ValueError.
pd_Timedelta(value) ==
    IF value.series THEN ParseFailure
    ELSE CASE value.cell.t \in {"timedelta", "nat"} -> Parsed(value.cell)
           [] value.cell.t = "str" -> ParseTimedelta(value.cell.s)
           [] value.cell.t \in {"none", "nan"} -> Parsed(NaT)
           [] OTHER -> ParseFailure

\* def cast_to_timedelta(s): try: return pd.Timedelta(s) / except: return s
cast_to_timedelta(s) ==
    LET r == pd_Timedelta(s)
    IN  IF r.ok THEN AsScalar(r.v) ELSE s

\* The column DataFrame.apply builds from what the function returned for it:
\* a returned Series as it is, a returned scalar as the column's one value.
ColumnOf(returned, length) ==
    IF returned.series THEN returned.cells ELSE [r \in 1..length |-> returned.cell]

\* frame.loc[:, timedelta_columns].apply(cast_to_timedelta): DataFrame.apply
\* calls the function once per column, with the column as a Series.
ApplyCastToTimedelta(cells) == ColumnOf(cast_to_timedelta(AsSeries(cells)), Len(cells))

\* A column converter returns [raised, cells].
Converted(cells) == [raised |-> FALSE, cells |-> cells]
Raised(cells) == [raised |-> TRUE, cells |-> cells]

\* The per-cell conversion of a column group.
ConvertCell(group, value) ==
    IF group = "numeric" THEN ToNumericCell(value) ELSE ToDatetimeCell(value)

\* What errors="coerce" writes for a cell that does not parse: NaN, NaT.
NullOf(group) == IF group = "numeric" THEN PyNaN ELSE NaT

\* to_numeric / to_datetime over one column under the errors= argument:
\* raise gives up on the first bad cell, coerce nulls the bad cells, ignore
\* returns the column as it came.
ConvertColumn(group, cells, errors) ==
    LET allOk == \A r \in 1..Len(cells) : ConvertCell(group, cells[r]).ok
    IN  IF allOk THEN Converted([r \in 1..Len(cells) |-> ConvertCell(group, cells[r]).v])
        ELSE CASE errors = "raise" -> Raised(cells)
               [] errors = "coerce" ->
                     Converted([r \in 1..Len(cells) |->
                                  IF ConvertCell(group, cells[r]).ok
                                  THEN ConvertCell(group, cells[r]).v
                                  ELSE NullOf(group)])
               [] errors = "ignore" -> Converted(cells)

\* A plausible slip: ignore treated like coerce.
to_numeric_IgnoreAsCoerce(cells, errors) ==
    ConvertColumn("numeric", cells, IF errors = "ignore" THEN "coerce" ELSE errors)

\* frame.loc[:, numeric_columns].apply(pd.to_numeric, errors=conversion_errors)
to_numeric(cells, errors) == ConvertColumn("numeric", cells, errors)

\* frame.loc[:, date_columns].apply(pd.to_datetime, errors=conversion_errors)
to_datetime(cells, errors) == ConvertColumn("datetime", cells, errors)

\* frame.loc[:, text_columns].astype(str)
astype_str(cells) == [r \in 1..Len(cells) |-> PyStr(PyStrOf(cells[r]))]

\* The dtype pandas infers for a column built from these cells.
InferKind(cells) ==
    LET ts == {cells[r].t : r \in 1..Len(cells)}
    IN  CASE ts = {} -> "O"
          [] ts = {"bool"} -> "b"
          [] ts = {"int"} -> "i"
          [] ts \subseteq {"int", "float", "nan", "inf"} -> "f"
          [] ts \subseteq {"datetime", "nat"} -> "M"
          [] ts \subseteq {"timedelta", "nat"} -> "m"
          [] OTHER -> "O"

\* frame = pd.DataFrame(component_value["rowData"])
DataFrameOfRecords(rowData) ==
    LET data == [c \in ColumnNames |-> [r \in 1..Len(rowData) |-> LoadsValue(rowData[r][c])]]
    IN  [columns |-> IF Len(rowData) = 0 THEN <<>> ELSE <<"id", "x">>,
         dtypes |-> [c \in ColumnNames |-> InferKind(data[c])],
         data |-> data]

\* frame.empty
FrameEmpty(frame) == Len(frame.columns) = 0 \/ \A c \in ColumnNames : Len(frame.data[c]) = 0

NumericTags == {"i", "u", "f"}
TextTags == {"O", "S", "U"}
DateTags == {"M"}
TimedeltaTags == {"m"}

\* The retyping of one column by the tag original_types gives it; a column
\* whose tag is in none of the four groups is left as it is.
RetypeColumn(tag, cells, errors) ==
    CASE tag \in NumericTags -> to_numeric(cells, errors)
      [] tag \in TextTags -> Converted(astype_str(cells))
      [] tag \in DateTags -> to_datetime(cells, errors)
      [] tag \in TimedeltaTags -> Converted(ApplyCastToTimedelta(cells))
      [] OTHER -> Converted(cells)

\* if not frame.empty: if try_to_convert_back_to_original_types: ...
ShouldRetype(frame, convert) == ~FrameEmpty(frame) /\ convert

\* Lines 232-277: the frame and selection built from a truthy component
\* value; raised when a conversion propagated its error.
Decode(component_value, convert, errors) ==
    LET frame == DataFrameOfRecords(component_value.rowData)
        original_types == component_value.originalDtypes
        retyped == [c \in ColumnNames |-> RetypeColumn(original_types[c], frame.data[c], errors)]
        data == [c \in ColumnNames |-> retyped[c].cells]
        selected == [r \in 1..Len(component_value.selectedRows) |->
                       [c \in ColumnNames |-> LoadsValue(component_value.selectedRows[r][c])]]
    IN  IF ~ShouldRetype(frame, convert)
        THEN [raised |-> FALSE, data |-> frame, selected_rows |-> selected]
        ELSE [raised |-> \E c \in ColumnNames : retyped[c].raised,
              data |-> [columns |-> frame.columns,
                        dtypes |-> [c \in ColumnNames |-> InferKind(data[c])],
                        data |-> data],
              selected_rows |-> selected]

(* --------------------------- grid options ------------------------------ *)
\* A gridOptions document is the sequence of its leaves, each [path, v]: the
\* keys leading to the leaf and its value, a plain string or a JsCode marker
\* wrapping the text of a JavaScript function.

PlainLeaf(chars) == [t |-> "str", s |-> chars]
JsCode(chars) == [t |-> "JsCode", s |-> chars]

JsText == <<"f", "(", ")", "{", "}">>

\* The documents a caller holds.
OptionDocs ==
    { <<[path |-> <<"rowHeight">>, v |-> PlainLeaf(<<"3", "0">>)]>>,
      <<[path |-> <<"onCellClicked">>, v |-> JsCode(JsText)]>>,
      <<[path |-> <<"defaultColDef", "cellStyle">>, v |-> JsCode(JsText)],
        [path |-> <<"rowHeight">>, v |-> PlainLeaf(<<"3", "0">>)]>> }

\* GridOptionsBuilder.from_dataframe(dataframe, ...).build(): a fresh
\* document without markers.
DefaultGridOptions(dataframe) ==
    <<[path |-> <<"defaultColDef", "editable">>, v |-> PlainLeaf(FalseChars)]>>

\* lambda v: v.js_code if isinstance(v, JsCode) else v
UnwrapJsCode(v) == IF v.t = "JsCode" THEN PlainLeaf(v.s) ELSE v

\* walk_gridOptions(gridOptions, func): func applied at every leaf of the
\* document, which is changed in place (the call's result is not used).
walk_gridOptions(go) == [i \in 1..Len(go) |-> [path |-> go[i].path, v |-> UnwrapJsCode(go[i].v)]]

HasJsCode(go) == \E i \in 1..Len(go) : go[i].v.t = "JsCode"

\* A plausible slip: markers are unwrapped whatever the flag says.
GatedWalk_Ungated(go, allow_unsafe_jscode) == walk_gridOptions(go)

\* if allow_unsafe_jscode: walk_gridOptions(gridOptions, ...)
GatedWalk(go, allow_unsafe_jscode) ==
    IF allow_unsafe_jscode THEN walk_gridOptions(go) ELSE go

(* ------------------------ configuration validation --------------------- *)

\* _available_themes = ["streamlit", "light", "dark", "blue", "fresh", "material"]
AvailableThemes ==
    { <<"s", "t", "r", "e", "a", "m", "l", "i", "t">>,
      <<"l", "i", "g", "h", "t">>,
      <<"d", "a", "r", "k">>,
      <<"b", "l", "u", "e">>,
      <<"f", "r", "e", "s", "h">>,
      <<"m", "a", "t", "e", "r", "i", "a", "l">> }

\* The member names of GridUpdateMode.
GridUpdateModeNames ==
    { <<"N", "O", "_", "U", "P", "D", "A", "T", "E">>,
      <<"M", "A", "N", "U", "A", "L">>,
      <<"V", "A", "L", "U", "E", "_", "C", "H", "A", "N", "G", "E", "D">>,
      <<"S", "E", "L", "E", "C", "T", "I", "O", "N", "_", "C", "H", "A", "N", "G", "E", "D">>,
      <<"F", "I", "L", "T", "E", "R", "I", "N", "G", "_", "C", "H", "A", "N", "G", "E", "D">>,
      <<"S", "O", "R", "T", "I", "N", "G", "_", "C", "H", "A", "N", "G", "E", "D">>,
      <<"M", "O", "D", "E", "L", "_", "C", "H", "A", "N", "G", "E", "D">> }

\* The member names of DataReturnMode.
DataReturnModeNames ==
    { <<"A", "S", "_", "I", "N", "P", "U", "T">>,
      <<"F", "I", "L", "T", "E", "R", "E", "D">>,
      <<"F", "I", "L", "T", "E", "R", "E", "D", "_", "A", "N", "D", "_", "S", "O", "R", "T", "E", "D">> }

EnumNames(cls) == IF cls = "GridUpdateMode" THEN GridUpdateModeNames ELSE DataReturnModeNames

NoError == [type |-> "none", value |-> <<>>, text |-> ""]

\* An exception whose message is the formatted value followed by text.
ErrorOf(type, value, text) == [type |-> type, value |-> value, text |-> text]

\* A plausible slip: any string is taken for a theme.
ThemeValid_AnyString(theme) == theme.t = "str"

\* not ((not isinstance(theme, str)) or (not theme in _available_themes))
ThemeValid(theme) == theme.t = "str" /\ theme.s \in AvailableThemes

\* The try block of lines 187-191 / 196-200: [ok, v], v the mode after the
\* block; the block fails on a value that is neither a string nor a member
\* of cls, and on a string whose upper case names no member (KeyError).
ResolveMode(cls, mode) ==
    IF mode.t \notin {"str", cls} THEN [ok |-> FALSE, v |-> mode]
    ELSE IF mode.t = "str"
         THEN IF Upper(mode.s) \in EnumNames(cls)
              THEN [ok |-> TRUE, v |-> EnumMember(cls, Upper(mode.s))]
              ELSE [ok |-> FALSE, v |-> mode]
         ELSE [ok |-> TRUE, v |-> mode]

\* Lines 180-202: [ok, error, data_return_mode, update_mode]. The theme is
\* checked first, then data_return_mode, then update_mode; both mode
\* handlers format data_return_mode into their message.
ValidateConfig(theme, data_return_mode, update_mode) ==
    LET drm == ResolveMode("DataReturnMode", data_return_mode)
        um == ResolveMode("GridUpdateMode", update_mode)
    IN  IF ~ThemeValid(theme)
        THEN [ok |-> FALSE, data_return_mode |-> data_return_mode, update_mode |-> update_mode,
              error |-> ErrorOf("ValueError", PyStrOf(theme),
                                " is not valid. Available options: ['streamlit', 'light', 'dark', 'blue', 'fresh', 'material']")]
        ELSE IF ~drm.ok
        THEN [ok |-> FALSE, data_return_mode |-> data_return_mode, update_mode |-> update_mode,
              error |-> ErrorOf("ValueError", PyStrOf(drm.v), " is not valid.")]
        ELSE IF ~um.ok
        THEN [ok |-> FALSE, data_return_mode |-> drm.v, update_mode |-> update_mode,
              error |-> ErrorOf("ValueError", PyStrOf(drm.v), " is not valid.")]
        ELSE [ok |-> TRUE, data_return_mode |-> drm.v, update_mode |-> um.v, error |-> NoError]

(* ----------------------------- render call ---------------------------- *)

VARIABLES
    pc,               \* idle, waiting (inside _component_func), done, error
    callerFrame,      \* the caller's dataframe object
    callerOptions,    \* the caller's gridOptions object
    args,             \* the arguments of the current call, as they were passed
    response,         \* the local response dict, returned when pc = "done"
    payload,          \* the keyword arguments handed to _component_func
    boundaryCalls,    \* calls of _component_func in the current render call
    component_value,  \* what _component_func produced
    error             \* the exception the call ended in

vars == <<pc, callerFrame, callerOptions, args, response, payload,
          boundaryCalls, component_value, error>>

LightTheme == PyStr(<<"l", "i", "g", "h", "t">>)

\* The themes a caller passes: valid ones, an unknown one, a valid name in
\* the wrong case, and a value that is no string.
Themes ==
    { LightTheme,
      PyStr(<<"m", "a", "t", "e", "r", "i", "a", "l">>),
      PyStr(<<"n", "e", "o", "n">>),
      PyStr(<<"L", "i", "g", "h", "t">>),
      PyNone }

ValueChangedStr == PyStr(<<"v", "a", "l", "u", "e", "_", "c", "h", "a", "n", "g", "e", "d">>)

UpdateModes ==
    { ValueChangedStr,
      PyStr(<<"M", "o", "d", "e", "l", "_", "C", "h", "a", "n", "g", "e", "d">>),
      PyStr(BogusChars),
      EnumMember("GridUpdateMode", <<"M", "A", "N", "U", "A", "L">>),
      EnumMember("DataReturnMode", <<"F", "I", "L", "T", "E", "R", "E", "D">>),
      PyInt(5) }

AsInputStr == PyStr(<<"a", "s", "_", "i", "n", "p", "u", "t">>)

DataReturnModes ==
    { AsInputStr,
      PyStr(<<"F", "i", "l", "t", "e", "r", "e", "d">>),
      PyStr(BogusChars),
      EnumMember("DataReturnMode", <<"F", "I", "L", "T", "E", "R", "E", "D">>),
      PyInt(5) }

ErrorPolicies == {"raise", "coerce", "ignore"}

\* Calls that vary the decoding settings under a valid configuration.
CodecConfigs ==
    [theme : {LightTheme}, update_mode : {ValueChangedStr}, data_return_mode : {AsInputStr},
     allow_unsafe_jscode : {FALSE}, gridOptionsGiven : {FALSE},
     try_to_convert_back_to_original_types : BOOLEAN, conversion_errors : ErrorPolicies]

\* Calls that vary the configuration under the default decoding settings.
ValidationConfigs ==
    [theme : Themes, update_mode : UpdateModes, data_return_mode : DataReturnModes,
     allow_unsafe_jscode : BOOLEAN, gridOptionsGiven : BOOLEAN,
     try_to_convert_back_to_original_types : {TRUE}, conversion_errors : {"coerce"}]

\* The tables the configuration is varied on.
ConfigFrames ==
    { MkFrame("i", [r \in 1..NRows |-> PyInt(3)]),
      MkFrame("m", [r \in 1..NRows |-> MkTimedelta(1)]) }

PlainOptions == <<[path |-> <<"rowHeight">>, v |-> PlainLeaf(<<"3", "0">>)]>>

NoArgs ==
    [theme |-> PyNone, update_mode |-> PyNone, data_return_mode |-> PyNone,
     allow_unsafe_jscode |-> FALSE, gridOptionsGiven |-> FALSE,
     try_to_convert_back_to_original_types |-> FALSE, conversion_errors |-> "",
     gridOptions |-> <<>>,
     dataframe |-> [columns |-> <<>>, dtypes |-> [c \in ColumnNames |-> ""],
                    data |-> [c \in ColumnNames |-> <<>>]]]

NoPayload ==
    [gridOptions |-> <<>>, row_data |-> <<>>, frame_dtypes |-> [c \in ColumnNames |-> ""],
     update_mode |-> PyNone, data_return_mode |-> PyNone,
     allow_unsafe_jscode |-> FALSE, theme |-> PyNone]

NoResponse ==
    [data |-> [columns |-> <<>>, dtypes |-> [c \in ColumnNames |-> ""],
               data |-> [c \in ColumnNames |-> <<>>]],
     selected_rows |-> <<>>]

\* What _component_func produced: pending (not called or not back), None
\* (default=None, no value yet), dict or str (a response document, as an
\* object or as JSON text), raised (MarshallComponentException, message).
ComponentValue(kind, rowData, tags, selectedRows, message) ==
    [kind |-> kind, rowData |-> rowData, originalDtypes |-> tags,
     selectedRows |-> selectedRows, message |-> message]

Pending == ComponentValue("pending", <<>>, [c \in ColumnNames |-> ""], <<>>, "")

Init ==
    /\ pc = "idle"
    /\ callerFrame \in Frames
    /\ callerOptions \in OptionDocs
    /\ callerFrame \in ConfigFrames \/ callerOptions = PlainOptions
    /\ args = NoArgs
    /\ response = NoResponse
    /\ payload = NoPayload
    /\ boundaryCalls = 0
    /\ component_value = Pending
    /\ error = NoError

\* A plausible slip: the encoded frame is returned when there is no value.
InitialResponse_Encoded(dataframe) ==
    [data |-> [columns |-> dataframe.columns, dtypes |-> dataframe.dtypes,
               data |-> Applymap(dataframe).data],
     selected_rows |-> <<>>]

\* response = {}; response["data"] = dataframe; response["selected_rows"] = []
InitialResponse(dataframe) == [data |-> dataframe, selected_rows |-> <<>>]

\* A plausible slip: the tags are taken from the encoded frame.
TagsToSend_AfterEncoding(dataframe) ==
    [c \in ColumnNames |-> InferKind(Applymap(dataframe).data[c])]

\* frame_dtypes is built on line 150, before applymap, and passed on line 213.
TagsToSend(dataframe) == FrameDtypes(dataframe)

\* Lines 140-221: the call up to and including the hand-over to
\* _component_func, or to the exception raised before it.
Render(cfg) ==
    /\ pc = "idle"
    /\ cfg \in CodecConfigs \/ callerFrame \in ConfigFrames
    /\ LET dataframe == callerFrame
           frame_dtypes == TagsToSend(dataframe)
           gridOptions == IF cfg.gridOptionsGiven THEN callerOptions
                          ELSE DefaultGridOptions(dataframe)
           row_data == SimplejsonDumps(ToDictRecords(Applymap(dataframe)))
           unserializable == \E r \in 1..Len(row_data) : \E c \in ColumnNames :
                                 row_data[r][c].j = "TypeError"
           walked == GatedWalk(gridOptions, cfg.allow_unsafe_jscode)
           checked == ValidateConfig(cfg.theme, cfg.data_return_mode, cfg.update_mode)
       IN  /\ args' = [theme |-> cfg.theme, update_mode |-> cfg.update_mode,
                       data_return_mode |-> cfg.data_return_mode,
                       allow_unsafe_jscode |-> cfg.allow_unsafe_jscode,
                       gridOptionsGiven |-> cfg.gridOptionsGiven,
                       try_to_convert_back_to_original_types |->
                           cfg.try_to_convert_back_to_original_types,
                       conversion_errors |-> cfg.conversion_errors,
                       gridOptions |-> IF cfg.gridOptionsGiven THEN callerOptions ELSE <<>>,
                       dataframe |-> dataframe]
           /\ response' = InitialResponse(dataframe)
           /\ IF unserializable
              THEN /\ pc' = "error"
                   /\ error' = ErrorOf("TypeError", <<>>, "is not JSON serializable")
                   /\ UNCHANGED <<callerOptions, payload, boundaryCalls>>
              ELSE /\ callerOptions' = IF cfg.gridOptionsGiven THEN walked ELSE callerOptions
                   /\ IF checked.ok
                      THEN /\ pc' = "waiting"
                           /\ payload' = [gridOptions |-> walked, row_data |-> row_data,
                                          frame_dtypes |-> frame_dtypes,
                                          update_mode |-> checked.update_mode,
                                          data_return_mode |-> checked.data_return_mode,
                                          allow_unsafe_jscode |-> cfg.allow_unsafe_jscode,
                                          theme |-> cfg.theme]
                           /\ boundaryCalls' = boundaryCalls + 1
                           /\ error' = NoError
                      ELSE /\ pc' = "error"
                           /\ error' = checked.error
                           /\ UNCHANGED <<payload, boundaryCalls>>
           /\ UNCHANGED <<callerFrame, component_value>>

(* ------------------------- the component's answer ---------------------- *)

\* What a user may leave in a cell of a column with this tag.
EditsFor(tag) ==
    {JString(BogusChars), JNull}
    \cup (CASE tag \in NumericTags \cup TextTags -> {JString(<<"1", "2">>), JInt(7)}
            [] tag \in DateTags -> {JString(<<"2", "0", "2", "0", "-", "0", "1", "-", "0", "2">>)}
            [] tag \in TimedeltaTags ->
                  {JString(<<"P", "2", "D", "T", "0", "H", "0", "M", "0", "S">>)}
            [] OTHER -> {JToken("false")})

\* The rows sent, with one cell replaced.
EditedRows(rows, r, c, jv) ==
    [i \in 1..Len(rows) |-> IF i = r THEN [rows[i] EXCEPT ![c] = jv] ELSE rows[i]]

\* The response documents the grid may answer a payload with: the rows as
\* sent (with or without a selection, as an object or as JSON text), no rows
\* at all, or the rows with one edited cell. The tags are echoed as sent.
ResponseDocuments(sent) ==
    LET rows == sent.row_data
        tags == sent.frame_dtypes
    IN  {ComponentValue(kind, rows, tags, sel, "") :
            kind \in {"dict", "str"}, sel \in {<<>>, <<rows[1]>>}}
        \cup {ComponentValue("dict", <<>>, tags, <<>>, "")}
        \cup {ComponentValue("dict", EditedRows(rows, r, c, jv), tags, <<>>, "") :
                <<r, c, jv>> \in {e \in (1..Len(rows)) \X ColumnNames
                                        \X UNION {EditsFor(tags[k]) : k \in ColumnNames} :
                                    e[3] \in EditsFor(tags[e[2]])}}

\* The component marshals its arguments to JSON; a JsCode object among them
\* cannot be marshalled.
TransportRejects(sent) == HasJsCode(sent.gridOptions)

MarshallMessage == "Could not convert component args to JSON"

UnsafeHint ==
    ". If you're using custom JsCode objects on gridOptions, ensure that allow_unsafe_jscode is True."

\* args[0] += ". If you're using custom JsCode objects ..."
Augmented(message) == message \o UnsafeHint

\* Lines 223-230: _component_func raised MarshallComponentException; it is
\* raised again with the longer message.
ComponentRaises ==
    /\ pc = "waiting"
    /\ TransportRejects(payload)
    /\ component_value' = ComponentValue("raised", <<>>, [c \in ColumnNames |-> ""], <<>>,
                                         MarshallMessage)
    /\ error' = ErrorOf("MarshallComponentException", <<>>, Augmented(MarshallMessage))
    /\ pc' = "error"
    /\ UNCHANGED <<callerFrame, callerOptions, args, response, payload, boundaryCalls>>

\* Lines 232 and 279: _component_func returned its default, None.
ComponentReturnsNone ==
    /\ pc = "waiting"
    /\ ~TransportRejects(payload)
    /\ component_value' = ComponentValue("None", <<>>, [c \in ColumnNames |-> ""], <<>>, "")
    /\ pc' = "done"
    /\ UNCHANGED <<callerFrame, callerOptions, args, response, payload,
                   boundaryCalls, error>>

\* Lines 232-279: _component_func returned a response document.
ComponentReturnsValue(value) ==
    /\ pc = "waiting"
    /\ ~TransportRejects(payload)
    /\ component_value' = value
    /\ LET decoded == Decode(value, args.try_to_convert_back_to_original_types,
                             args.conversion_errors)
       IN  IF decoded.raised
           THEN /\ pc' = "error"
                /\ error' = ErrorOf("ConversionError", <<>>, "Unable to parse")
                /\ UNCHANGED response
           ELSE /\ pc' = "done"
                /\ response' = [data |-> decoded.data, selected_rows |-> decoded.selected_rows]
                /\ UNCHANGED error
    /\ UNCHANGED <<callerFrame, callerOptions, args, payload, boundaryCalls>>

\* The host runs the script again: the next render call starts with the
\* caller's objects as the previous call left them.
Rerun ==
    /\ pc \in {"done", "error"}
    /\ pc' = "idle"
    /\ args' = NoArgs
    /\ response' = NoResponse
    /\ payload' = NoPayload
    /\ boundaryCalls' = 0
    /\ component_value' = Pending
    /\ error' = NoError
    /\ UNCHANGED <<callerFrame, callerOptions>>

Next ==
    \/ \E cfg \in CodecConfigs \cup ValidationConfigs : Render(cfg)
    \/ ComponentRaises
    \/ ComponentReturnsNone
    \/ pc = "waiting" /\ \E value \in ResponseDocuments(payload) : ComponentReturnsValue(value)
    \/ Rerun

Spec == Init /\ [][Next]_vars

(* ------------------------------ properties ---------------------------- *)

\* The boundary call of the current render call has been made.
Sent == pc # "idle" /\ boundaryCalls = 1

\* The component answered the current call with a response document.
Answered == pc \in {"done", "error"} /\ component_value.kind \in {"dict", "str"}

\* The cell of the answered rows as the decoder first reads it.
AnsweredCell(r, c) == LoadsValue(component_value.rowData[r][c])

\* C1: when the boundary call returns no value, the call returns the input
\* table itself, cell for cell and dtype for dtype, and an empty selection,
\* whatever convert-types and the error policy are.
C1_NoValueReturnsInput ==
    (pc = "done" /\ component_value.kind = "None")
        => (response.data = callerFrame /\ response.selected_rows = <<>>)

\* C1 witness: no value came back for a table whose encoding differs from
\* it (a duration column), with convert-types on and policy raise.
C1_Witness ==
    /\ pc = "done"
    /\ component_value.kind = "None"
    /\ callerFrame.dtypes["x"] = "m"
    /\ args.try_to_convert_back_to_original_types
    /\ args.conversion_errors = "raise"

\* A mode resolves when it is a member of its enumeration already, or a
\* string that names a member when case is ignored.
ModeResolves(cls, mode) ==
    \/ mode.t = cls
    \/ mode.t = "str" /\ \E name \in EnumNames(cls) : Lower(name) = Lower(mode.s)

ThemeListed(theme) ==
    /\ theme.t = "str"
    /\ theme.s \in { <<"s", "t", "r", "e", "a", "m", "l", "i", "t">>, <<"l", "i", "g", "h", "t">>,
                     <<"d", "a", "r", "k">>, <<"b", "l", "u", "e">>, <<"f", "r", "e", "s", "h">>,
                     <<"m", "a", "t", "e", "r", "i", "a", "l">> }

ConfigurationValid ==
    /\ ThemeListed(args.theme)
    /\ ModeResolves("GridUpdateMode", args.update_mode)
    /\ ModeResolves("DataReturnMode", args.data_return_mode)

\* C2: once a render call has started, an invalid theme, update mode or data
\* return mode means the call has ended in a ValueError without any boundary
\* call; a valid configuration means exactly one boundary call was made.
C2_ValidationPrecedesBoundaryCall ==
    IF pc = "idle" THEN boundaryCalls = 0
    ELSE IF ConfigurationValid
         THEN boundaryCalls = 1 /\ error.type # "ValueError"
         ELSE pc = "error" /\ error.type = "ValueError" /\ boundaryCalls = 0
              /\ payload = NoPayload

\* C2 witness: theme and data return mode are valid, the update mode is not,
\* and the call has ended before the boundary.
C2_Witness ==
    /\ pc = "error"
    /\ ThemeListed(args.theme)
    /\ ModeResolves("DataReturnMode", args.data_return_mode)
    /\ ~ModeResolves("GridUpdateMode", args.update_mode)
    /\ boundaryCalls = 0

\* C3: when the theme and the data return mode are valid and the update mode
\* is not, the error message names the update mode the caller passed.
C3_MessageNamesUpdateMode ==
    (/\ pc = "error"
     /\ ThemeListed(args.theme)
     /\ ModeResolves("DataReturnMode", args.data_return_mode)
     /\ ~ModeResolves("GridUpdateMode", args.update_mode))
        => error.value = PyStrOf(args.update_mode)

\* The grid options the current call started from.
OptionsBefore ==
    IF args.gridOptionsGiven THEN args.gridOptions ELSE DefaultGridOptions(callerFrame)

\* C4: the options sent hold, leaf for leaf, the raw text of a marker when
\* allow-unsafe-code is set and the marker itself when it is not; a call
\* that sent a marker never returns a result but ends in the transport's
\* exception, whose message is the original one followed by the hint.
C4_UnsafeCodeGate ==
    /\ Sent =>
          /\ Len(payload.gridOptions) = Len(OptionsBefore)
          /\ \A i \in 1..Len(OptionsBefore) :
                LET before == OptionsBefore[i]
                    sent == payload.gridOptions[i]
                IN  /\ sent.path = before.path
                    /\ IF before.v.t = "JsCode" /\ args.allow_unsafe_jscode
                       THEN sent.v = [t |-> "str", s |-> before.v.s]
                       ELSE sent.v = before.v
    /\ (Sent /\ HasJsCode(payload.gridOptions)) => pc # "done"
    /\ (pc = "error" /\ component_value.kind = "raised") =>
          /\ error.type = "MarshallComponentException"
          /\ error.text = component_value.message \o UnsafeHint
          /\ ~args.allow_unsafe_jscode

\* C4 witness: markers were sent without the flag and the transport's
\* rejection ended the call.
C4_Witness ==
    /\ pc = "error"
    /\ component_value.kind = "raised"
    /\ ~args.allow_unsafe_jscode
    /\ HasJsCode(args.gridOptions)

\* C5: every row sent is made of JSON scalars only; a not-a-number or
\* infinite cell is sent as the string nan, inf or -inf, a finite number is
\* sent as that number, and no NaN or Infinity token is sent.
C5_EncoderEmitsValidJson ==
    Sent =>
        \A r \in 1..NRows : \A c \in ColumnNames :
            LET cell == callerFrame.data[c][r]
                wire == payload.row_data[r][c]
            IN  /\ wire.j \in {"int", "float", "string", "true", "false", "null"}
                /\ cell.t = "nan" => wire = JString(<<"n", "a", "n">>)
                /\ (cell.t = "inf" /\ cell.n > 0) => wire = JString(<<"i", "n", "f">>)
                /\ (cell.t = "inf" /\ cell.n < 0) => wire = JString(<<"-", "i", "n", "f">>)
                /\ cell.t = "int" => wire = JInt(cell.n)
                /\ cell.t = "float" => wire = JFloat(cell.n)

\* C5 witness: a table with an infinite cell and a finite float was sent.
C5_Witness ==
    /\ Sent
    /\ \E r \in 1..NRows : callerFrame.data["x"][r].t = "inf"
    /\ \E r \in 1..NRows : callerFrame.data["x"][r].t = "float"

\* The response is a non-empty table decoded with convert-types on.
Retyped ==
    /\ Answered
    /\ Len(component_value.rowData) > 0
    /\ args.try_to_convert_back_to_original_types

\* A text cell no duration can be read from.
MalformedDuration(cell) == cell.t = "str" /\ ~ParseTimedelta(cell.s).ok

\* C6: in a decoded duration column with exactly one malformed cell, every
\* other cell comes back as a duration value and the malformed cell keeps
\* its text, under each error policy.
C6_DurationPerCellFallback ==
    \A c \in ColumnNames :
        (/\ Retyped
         /\ component_value.originalDtypes[c] = "m"
         /\ Cardinality({r \in 1..NRows : MalformedDuration(AnsweredCell(r, c))}) = 1)
            => /\ pc = "done"
               /\ \A r \in 1..NRows :
                     IF MalformedDuration(AnsweredCell(r, c))
                     THEN response.data.data[c][r] = AnsweredCell(r, c)
                     ELSE response.data.data[c][r].t \in {"timedelta", "nat"}

\* A cell of a numeric or datetime column that does not parse.
Unparseable(tag, cell) ==
    \/ tag \in {"i", "u", "f"} /\ ~ToNumericCell(cell).ok
    \/ tag = "M" /\ ~ToDatetimeCell(cell).ok

\* C7: for a decoded numeric or datetime column with a cell that does not
\* parse, policy raise ends the call in the conversion error, coerce returns
\* null (NaN, NaT) in that cell, ignore returns the cell's original text; a
\* conversion error reaches the caller under raise only.
C7_ErrorPolicy ==
    /\ \A c \in ColumnNames : \A r \in 1..NRows :
          (Retyped /\ Unparseable(component_value.originalDtypes[c], AnsweredCell(r, c)))
             => CASE args.conversion_errors = "raise" ->
                        pc = "error" /\ error.type = "ConversionError"
                  [] args.conversion_errors = "coerce" ->
                        pc = "done" /\ response.data.data[c][r].t \in {"nan", "nat"}
                  [] args.conversion_errors = "ignore" ->
                        pc = "done" /\ response.data.data[c][r] = AnsweredCell(r, c)
    /\ (pc = "error" /\ error.type = "ConversionError") => args.conversion_errors = "raise"

\* C7 witness: under ignore, a datetime column came back with a cell that is
\* no date.
C7_Witness ==
    /\ Retyped
    /\ pc = "done"
    /\ args.conversion_errors = "ignore"
    /\ component_value.originalDtypes["x"] = "M"
    /\ \E r \in 1..NRows : Unparseable("M", AnsweredCell(r, "x"))

\* The identity response to the payload sent: the rows and tags as sent,
\* decoded with convert-types on under coerce.
IdentityRoundTrip ==
    /\ pc = "done"
    /\ component_value.kind \in {"dict", "str"}
    /\ component_value.rowData = payload.row_data
    /\ component_value.originalDtypes = payload.frame_dtypes
    /\ args.try_to_convert_back_to_original_types
    /\ args.conversion_errors = "coerce"

\* The table holds no not-a-number, infinite or null cell.
NoNullCells ==
    \A c \in ColumnNames : \A r \in 1..NRows :
        callerFrame.data[c][r].t \notin {"nan", "inf", "none", "nat"}

\* C8: the identity round trip of a table without not-a-number or infinite
\* values returns every numeric and text cell equal to the original, every
\* datetime cell as the original datetime value and every duration cell as
\* the original duration value.
C8_RoundTrip ==
    (IdentityRoundTrip /\ NoNullCells) =>
        \A c \in ColumnNames :
            callerFrame.dtypes[c] \in {"i", "u", "f", "O", "M", "m"}
                => response.data.data[c] = callerFrame.data[c]

\* The six ColumnTypeTag values.
SixTags == {"i", "u", "f", "O", "M", "m"}

\* C9 as stated: every tag sent is one of the six ColumnTypeTag values, a
\* column of any other declared type being tagged object/text.
C9_TagIsOneOfSix ==
    Sent => \A c \in ColumnNames :
               /\ payload.frame_dtypes[c] \in SixTags
               /\ callerFrame.dtypes[c] \notin SixTags => payload.frame_dtypes[c] = "O"

\* C9 amended: the tag sent for a column is the kind of its declared element
\* type, read from the table before any cell is transformed; it is one of
\* the six ColumnTypeTag values exactly when the declared type is, and a
\* boolean column is tagged b, which the decoder leaves unretyped.
C9_TagIsDeclaredKind ==
    /\ Sent => \A c \in ColumnNames :
                  /\ payload.frame_dtypes[c] = callerFrame.dtypes[c]
                  /\ payload.frame_dtypes[c] \in SixTags \cup {"b"}
                  /\ \A r \in 1..NRows : callerFrame.data[c][r].t = "bool"
                        => payload.frame_dtypes[c] = "b"
    /\ (Answered /\ pc = "done" /\ Len(component_value.rowData) > 0) =>
          \A c \in ColumnNames : \A r \in 1..NRows :
              component_value.originalDtypes[c] = "b"
                  => response.data.data[c][r] = AnsweredCell(r, c)

\* C9 witness: a table with a boolean column was sent and decoded.
C9_Witness ==
    /\ Answered
    /\ pc = "done"
    /\ callerFrame.dtypes["x"] = "b"
    /\ payload.frame_dtypes["x"] = "b"
    /\ Len(component_value.rowData) > 0

\* C10: a render call leaves the caller's table and the caller's grid
\* options document as they were when the call started, however it ends.
C10_ArgumentsUnchanged ==
    pc # "idle" =>
        /\ callerFrame = args.dataframe
        /\ args.gridOptionsGiven => callerOptions = args.gridOptions

====
